---- MODULE Spec2Model ----
(***************************************************************************)
(* Quadrature encoder interface of stm32f0xx-hal (src/qei.rs).             *)
(*                                                                         *)
(* The program state is the register state the driver touches: the two     *)
(* shared RCC registers APB1ENR and APB1RSTR and, per timer (TIM2, TIM3),  *)
(* the registers CCMR1, CCER, SMCR, ARR, CR1 and CNT.  Qei::tim2 and       *)
(* Qei::tim3 are modelled one register access per step, in program order;  *)
(* read_direction and count are single register reads.  The timer itself   *)
(* (peripheral reset, bus gating, counting) is the environment the driver  *)
(* runs against and is modelled after the STM32F0 reference manual.        *)
(*                                                                         *)
(* A counter value is a sequence of 16-bit half-words, least significant   *)
(* first: one half-word for the u16 counter of TIM3, two for the u32       *)
(* counter of TIM2, so <<65535, 65535>> is 4294967295.                     *)
(***************************************************************************)
EXTENDS Integers, Sequences, FiniteSets

\* How far from zero, in either direction, the counter is followed.
MaxDrift == 1

\* u16::MAX, the all-ones value of one half-word.
HalfMax == 65535

Timers == {"TIM2", "TIM3"}

\* qei! { TIM3: (.., u16) }   qei! { TIM2: (.., u32) }
Halves(t) == IF t = "TIM3" THEN 1 ELSE 2

\* $timXen of the macro invocation
EnBit(t) == IF t = "TIM3" THEN "tim3en" ELSE "tim2en"

\* $timXrst of the macro invocation, mistyped: both timers name tim3rst
RstBitCopied(t) == "tim3rst"

\* $timXrst of the macro invocation
RstBit(t) == IF t = "TIM3" THEN "tim3rst" ELSE "tim2rst"

\* Bits of APB1ENR / APB1RSTR: the two timers' and one other peripheral's.
EnBits == {"tim2en", "tim3en", "tim14en"}
RstBits == {"tim2rst", "tim3rst", "tim14rst"}

\* $width::MAX
WidthMax(t) == [i \in 1..Halves(t) |-> HalfMax]
Zero(t) == [i \in 1..Halves(t) |-> 0]

\* w + 1 modulo 2^(16 * Len(w))
RECURSIVE Inc(_)
Inc(w) ==
    IF w = <<>> THEN <<>>
    ELSE IF Head(w) = HalfMax THEN <<0>> \o Inc(Tail(w))
    ELSE <<Head(w) + 1>> \o Tail(w)

\* w - 1 modulo 2^(16 * Len(w))
RECURSIVE Dec(_)
Dec(w) ==
    IF w = <<>> THEN <<>>
    ELSE IF Head(w) = 0 THEN <<HalfMax>> \o Dec(Tail(w))
    ELSE <<Head(w) - 1>> \o Tail(w)

RECURSIVE IncBy(_, _)
IncBy(w, k) == IF k = 0 THEN w ELSE IncBy(Inc(w), k - 1)

RECURSIVE DecBy(_, _)
DecBy(w, k) == IF k = 0 THEN w ELSE DecBy(Dec(w), k - 1)

\* The counter values the model follows for register file r: up to MaxDrift
\* counts above 0 and up to MaxDrift counts below it, the first of which is ARR.
Window(r) ==
    {IncBy([i \in DOMAIN r.cnt |-> 0], k) : k \in 0..MaxDrift}
    \cup {DecBy(r.arr, k - 1) : k \in 1..MaxDrift}

(***************************************************************************)
(* Register fields.  Each register keeps, beside the fields the driver     *)
(* names, one field standing for the rest of the register.                 *)
(***************************************************************************)
\* CCxS = 01: channel x is an input mapped on TIx (cc1s().ti1(), cc2s().ti2())
TI == 1

Ccmr1Reset == [cc1s |-> 0, cc2s |-> 0, ic1f |-> 0]
CcerReset == [cc1e |-> FALSE, cc1p |-> FALSE, cc2e |-> FALSE, cc2p |-> FALSE]
SmcrReset == [sms |-> 0, ts |-> 0]
Cr1Reset == [cen |-> FALSE, dir |-> FALSE, arpe |-> FALSE]

\* The register file of a timer after a peripheral reset (ARR resets to all ones).
ResetRegs(t) ==
    [ccmr1 |-> Ccmr1Reset, ccer |-> CcerReset, smcr |-> SmcrReset,
     arr |-> WidthMax(t), cr1 |-> Cr1Reset, cnt |-> Zero(t)]

\* What earlier code may have left of a timer: its clock-enable bit, its
\* reset bit and its register file.  Untouched since power-on; in use as a
\* running timer; configured as an encoder, stopped and its clock gated off;
\* held in reset.
Earlier(t) ==
    { [en |-> FALSE, rst |-> FALSE, regs |-> ResetRegs(t)],
      [en |-> TRUE, rst |-> FALSE, regs |->
          [ccmr1 |-> [cc1s |-> 2, cc2s |-> 3, ic1f |-> 5],
           ccer |-> [cc1e |-> TRUE, cc1p |-> FALSE, cc2e |-> TRUE, cc2p |-> TRUE],
           smcr |-> [sms |-> 0, ts |-> 4],
           arr |-> Inc(Zero(t)),
           cr1 |-> [cen |-> TRUE, dir |-> TRUE, arpe |-> TRUE],
           cnt |-> Inc(Zero(t))]],
      [en |-> FALSE, rst |-> FALSE, regs |->
          [ccmr1 |-> [cc1s |-> 1, cc2s |-> 1, ic1f |-> 0],
           ccer |-> [cc1e |-> FALSE, cc1p |-> TRUE, cc2e |-> FALSE, cc2p |-> TRUE],
           smcr |-> [sms |-> 3, ts |-> 0],
           arr |-> Dec(WidthMax(t)),
           cr1 |-> [cen |-> FALSE, dir |-> TRUE, arpe |-> FALSE],
           cnt |-> Dec(Zero(t))]],
      [en |-> TRUE, rst |-> TRUE, regs |-> ResetRegs(t)] }

\* PINS, by the channels it declares: the subsets of {C1, C2}
Bindings == SUBSET {"C1", "C2"}
NotCalled == {"-"}
\* No retained return value: of count(), of read_direction()
NoCount == <<>>
NoDir == "none"
NoQuery == [fn |-> "none", tim |-> "none"]

VARIABLES
    apb1enr,    \* RCC APB1ENR: bit name -> BOOLEAN
    apb1rstr,   \* RCC APB1RSTR: bit name -> BOOLEAN
    tim,        \* timer -> register file
    binding,    \* timer -> the PINS its constructor was called with, or NotCalled
    pc,         \* timer -> number of register accesses its constructor has made
    log,        \* timer -> the accesses made so far, each with the RCC bits it saw
    lastCount,  \* timer -> what count() last returned, NoCount once the encoder moved
    lastDir,    \* timer -> what read_direction() last returned, likewise
    query       \* the query that made the last step, NoQuery if none did

vars == <<apb1enr, apb1rstr, tim, binding, pc, log, lastCount, lastDir, query>>

(***************************************************************************)
(* The timer hardware.                                                     *)
(***************************************************************************)
\* The APB1ENR bit that gates a timer's clock, the APB1RSTR bit that resets it.
ClockLine(t) == IF t = "TIM3" THEN "tim3en" ELSE "tim2en"
ResetLine(t) == IF t = "TIM3" THEN "tim3rst" ELSE "tim2rst"

\* The bus reaches a timer's registers only while its clock is enabled and
\* its reset is not asserted; otherwise a write is discarded.
Accessible(t) == apb1enr[ClockLine(t)] /\ ~apb1rstr[ResetLine(t)]

\* A write of register file r to timer t, as the bus delivers it.
BusWrite(t, r) == IF Accessible(t) THEN r ELSE tim[t]

\* The timers after APB1RSTR takes value r: an asserted reset bit puts its
\* timer's registers at their reset values.
AfterRstr(r) == [u \in Timers |-> IF r[ResetLine(u)] THEN ResetRegs(u) ELSE tim[u]]

\* One count up: the counter restarts from 0 after reaching ARR.
UpCount(r) == IF r.cnt = r.arr THEN [i \in DOMAIN r.cnt |-> 0] ELSE Inc(r.cnt)

\* One count down: the counter reloads ARR after reaching 0.
DownCount(r) == IF r.cnt = [i \in DOMAIN r.cnt |-> 0] THEN r.arr ELSE Dec(r.cnt)

\* A timer counts while it is clocked, out of reset and enabled (CR1.CEN).
Running(t) == Accessible(t) /\ tim[t].cr1.cen

\* SMS = 001, 010, 011: encoder modes 1, 2, 3
EncoderModes == {1, 2, 3}

(***************************************************************************)
(* Qei::$tim: the register accesses, in program order.                     *)
(***************************************************************************)
\* if PINS::C1 && PINS::C2 {..} else if PINS::C1 {..} else if PINS::C2 {..}
Branch(b) ==
    IF "C1" \in b /\ "C2" \in b THEN "both"
    ELSE IF "C1" \in b THEN "ch1"
    ELSE IF "C2" \in b THEN "ch2"
    ELSE "none"

\* The same accesses with the reset bit cleared last, after the configuration.
ProgramResetLast(b) ==
    <<"enr_set", "rstr_set">>
    \o (IF Branch(b) = "none" THEN <<>> ELSE <<"ccmr1", "ccer", "smcr">>)
    \o <<"arr", "cr1", "rstr_clear">>

\* The accesses Qei::$tim makes for PINS = b, first to last.
Program(b) ==
    <<"enr_set", "rstr_set", "rstr_clear">>
    \o (IF Branch(b) = "none" THEN <<>> ELSE <<"ccmr1", "ccer", "smcr">>)
    \o <<"arr", "cr1">>

Called(t) == binding[t] # NotCalled
Done(t) == Called(t) /\ pc[t] = Len(Program(binding[t]))
Busy(t) == Called(t) /\ pc[t] < Len(Program(binding[t]))

\* The next access of t's constructor is a.
At(t, a) == Busy(t) /\ Program(binding[t])[pc[t] + 1] = a

\* The constructor's bookkeeping for one access a.
Advance(t, a) ==
    /\ pc' = [pc EXCEPT ![t] = @ + 1]
    /\ log' = [log EXCEPT ![t] = Append(@, [acc |-> a, en |-> apb1enr[ClockLine(t)],
                                            rst |-> apb1rstr[ResetLine(t)]])]
    /\ query' = NoQuery
    /\ UNCHANGED <<binding, lastCount, lastDir>>

\* Qei::$tim(tim, pins, &mut rcc) is entered.  rcc is borrowed mutably, so no
\* other constructor is running.
Call(t, b) ==
    /\ ~Called(t)
    /\ \A u \in Timers : ~Busy(u)
    /\ binding' = [binding EXCEPT ![t] = b]
    /\ query' = NoQuery
    /\ UNCHANGED <<apb1enr, apb1rstr, tim, pc, log, lastCount, lastDir>>

\* $apbenr.write(..) in place of modify: the other bits take their reset value
EnrWritten(r, t) == [x \in EnBits |-> x = EnBit(t)]

\* rcc.regs.$apbenr.modify(|_, w| w.$timXen().set_bit())
EnrSet(r, t) == [r EXCEPT ![EnBit(t)] = TRUE]

\* rcc.regs.$apbrstr.modify(|_, w| w.$timXrst().set_bit())
RstrSet(r, t) == [r EXCEPT ![RstBit(t)] = TRUE]

\* rcc.regs.$apbrstr.modify(|_, w| w.$timXrst().clear_bit())
RstrClear(r, t) == [r EXCEPT ![RstBit(t)] = FALSE]

EnableClock(t) ==
    /\ At(t, "enr_set")
    /\ apb1enr' = EnrSet(apb1enr, t)
    /\ UNCHANGED <<apb1rstr, tim>>
    /\ Advance(t, "enr_set")

AssertReset(t) ==
    /\ At(t, "rstr_set")
    /\ apb1rstr' = RstrSet(apb1rstr, t)
    /\ tim' = AfterRstr(apb1rstr')
    /\ UNCHANGED apb1enr
    /\ Advance(t, "rstr_set")

ReleaseReset(t) ==
    /\ At(t, "rstr_clear")
    /\ apb1rstr' = RstrClear(apb1rstr, t)
    /\ tim' = AfterRstr(apb1rstr')
    /\ UNCHANGED apb1enr
    /\ Advance(t, "rstr_clear")

\* the two-channel branch's write in every branch
Ccmr1Both(old, b) == [old EXCEPT !.cc1s = TI, !.cc2s = TI]

\* tim.ccmr1_input().modify(|_, w| w.cc1s().ti1().cc2s().ti2()), or one of them
Ccmr1Val(old, b) ==
    IF Branch(b) = "both" THEN [old EXCEPT !.cc1s = TI, !.cc2s = TI]
    ELSE IF Branch(b) = "ch1" THEN [old EXCEPT !.cc1s = TI]
    ELSE [old EXCEPT !.cc2s = TI]

\* tim.ccer.write(|w| w.cc1p().set_bit().cc2p().set_bit()), or one of them
CcerVal(b) ==
    IF Branch(b) = "both" THEN [CcerReset EXCEPT !.cc1p = TRUE, !.cc2p = TRUE]
    ELSE IF Branch(b) = "ch1" THEN [CcerReset EXCEPT !.cc1p = TRUE]
    ELSE [CcerReset EXCEPT !.cc2p = TRUE]

\* encoder_mode_3() in every branch
SmsAlways3(b) == 3

\* sms().encoder_mode_3(), encoder_mode_1(), encoder_mode_2()
Sms(b) ==
    IF Branch(b) = "both" THEN 3
    ELSE IF Branch(b) = "ch1" THEN 1
    ELSE 2

\* tim.smcr.write(|w| w.sms().encoder_mode_N())
SmcrVal(b) == [SmcrReset EXCEPT !.sms = Sms(b)]

\* u16::MAX for either width
ArrHalfWord(t) == <<HalfMax>> \o [i \in 1..(Halves(t) - 1) |-> 0]

\* arr().variant($width::MAX - 1)
ArrOneLess(t) == Dec(WidthMax(t))

\* tim.arr.write(|w| w.arr().variant($width::MAX))
ArrVal(t) == WidthMax(t)

\* tim.cr1.write(|w| w.cen().set_bit())
Cr1Val == [Cr1Reset EXCEPT !.cen = TRUE]

WriteCcmr1(t) ==
    /\ At(t, "ccmr1")
    /\ tim' = [tim EXCEPT ![t] = BusWrite(t, [@ EXCEPT !.ccmr1 = Ccmr1Val(@, binding[t])])]
    /\ UNCHANGED <<apb1enr, apb1rstr>>
    /\ Advance(t, "ccmr1")

WriteCcer(t) ==
    /\ At(t, "ccer")
    /\ tim' = [tim EXCEPT ![t] = BusWrite(t, [@ EXCEPT !.ccer = CcerVal(binding[t])])]
    /\ UNCHANGED <<apb1enr, apb1rstr>>
    /\ Advance(t, "ccer")

WriteSmcr(t) ==
    /\ At(t, "smcr")
    /\ tim' = [tim EXCEPT ![t] = BusWrite(t, [@ EXCEPT !.smcr = SmcrVal(binding[t])])]
    /\ UNCHANGED <<apb1enr, apb1rstr>>
    /\ Advance(t, "smcr")

WriteArr(t) ==
    /\ At(t, "arr")
    /\ tim' = [tim EXCEPT ![t] = BusWrite(t, [@ EXCEPT !.arr = ArrVal(t)])]
    /\ UNCHANGED <<apb1enr, apb1rstr>>
    /\ Advance(t, "arr")

WriteCr1(t) ==
    /\ At(t, "cr1")
    /\ tim' = [tim EXCEPT ![t] = BusWrite(t, [@ EXCEPT !.cr1 = Cr1Val])]
    /\ UNCHANGED <<apb1enr, apb1rstr>>
    /\ Advance(t, "cr1")

(***************************************************************************)
(* The two queries.  A Qei value exists once its constructor has returned, *)
(* and the single thread of control is not inside another constructor.     *)
(***************************************************************************)
CanQuery(t) == Done(t) /\ \A u \in Timers : ~Busy(u)

\* the match arms exchanged
DirectionSwapped(r) == IF r.cr1.dir THEN "Upcounting" ELSE "Downcounting"

\* match self.timer.cr1.read().dir().bit_is_set() { true => .., false => .. }
Direction(r) == IF r.cr1.dir THEN "Downcounting" ELSE "Upcounting"

\* self.timer.cnt.read().cnt().bits()
CountOf(r) == r.cnt

ReadDirection(t) ==
    /\ CanQuery(t)
    /\ lastDir' = [lastDir EXCEPT ![t] = Direction(tim[t])]
    /\ query' = [fn |-> "read_direction", tim |-> t]
    /\ UNCHANGED <<apb1enr, apb1rstr, tim, binding, pc, log, lastCount>>

Count(t) ==
    /\ CanQuery(t)
    /\ lastCount' = [lastCount EXCEPT ![t] = CountOf(tim[t])]
    /\ query' = [fn |-> "count", tim |-> t]
    /\ UNCHANGED <<apb1enr, apb1rstr, tim, binding, pc, log, lastDir>>

(***************************************************************************)
(* The environment: encoder signal transitions and the internal clock.     *)
(***************************************************************************)
\* A transition of the encoder signals that the selected encoder mode counts,
\* up (down = FALSE) or down.  It sets the direction bit to its direction.
Edge(t, down) ==
    /\ Running(t)
    /\ tim[t].smcr.sms \in EncoderModes
    /\ LET c == IF down THEN DownCount(tim[t]) ELSE UpCount(tim[t])
       IN /\ c \in Window(tim[t])
          /\ tim' = [tim EXCEPT ![t].cnt = c, ![t].cr1.dir = down]
    /\ lastCount' = [lastCount EXCEPT ![t] = NoCount]
    /\ lastDir' = [lastDir EXCEPT ![t] = NoDir]
    /\ query' = NoQuery
    /\ UNCHANGED <<apb1enr, apb1rstr, binding, pc, log>>

\* A tick of the internal clock.  With the slave mode disabled (SMS = 000) an
\* enabled counter is clocked by the internal clock, in the direction of DIR.
Tick(t) ==
    /\ Running(t)
    /\ tim[t].smcr.sms = 0
    /\ LET c == IF tim[t].cr1.dir THEN DownCount(tim[t]) ELSE UpCount(tim[t])
       IN /\ c \in Window(tim[t])
          /\ tim' = [tim EXCEPT ![t].cnt = c]
    /\ query' = NoQuery
    /\ UNCHANGED <<apb1enr, apb1rstr, binding, pc, log, lastCount, lastDir>>

(***************************************************************************)
(* The state before anything is constructed: each timer as earlier code    *)
(* left it, and the other peripheral either enabled or held in reset.      *)
(***************************************************************************)
Init ==
    /\ \E e2 \in Earlier("TIM2"), e3 \in Earlier("TIM3"), oen \in BOOLEAN :
          /\ apb1enr = [x \in EnBits |->
                IF x = "tim2en" THEN e2.en ELSE IF x = "tim3en" THEN e3.en ELSE oen]
          /\ apb1rstr = [x \in RstBits |->
                IF x = "tim2rst" THEN e2.rst ELSE IF x = "tim3rst" THEN e3.rst ELSE ~oen]
          /\ tim = [t \in Timers |-> IF t = "TIM2" THEN e2.regs ELSE e3.regs]
    /\ binding = [t \in Timers |-> NotCalled]
    /\ pc = [t \in Timers |-> 0]
    /\ log = [t \in Timers |-> <<>>]
    /\ lastCount = [t \in Timers |-> NoCount]
    /\ lastDir = [t \in Timers |-> NoDir]
    /\ query = NoQuery

Next ==
    \E t \in Timers :
        \/ \E b \in Bindings : Call(t, b)
        \/ EnableClock(t)
        \/ AssertReset(t)
        \/ ReleaseReset(t)
        \/ WriteCcmr1(t)
        \/ WriteCcer(t)
        \/ WriteSmcr(t)
        \/ WriteArr(t)
        \/ WriteCr1(t)
        \/ ReadDirection(t)
        \/ Count(t)
        \/ \E down \in BOOLEAN : Edge(t, down)
        \/ Tick(t)

Spec == Init /\ [][Next]_vars

(***************************************************************************)
(* Properties.                                                             *)
(***************************************************************************)
ModeWrites == {"ccmr1", "ccer", "smcr"}
TimerWrites == ModeWrites \cup {"arr", "cr1"}

\* The place of an access in the five steps of construction.
Rank(a) ==
    CASE a = "enr_set" -> 1
      [] a = "rstr_set" -> 2
      [] a = "rstr_clear" -> 3
      [] a \in ModeWrites -> 4
      [] a = "arr" -> 5
      [] a = "cr1" -> 6

Accesses(t) == {log[t][i].acc : i \in DOMAIN log[t]}

\* C1: the accesses of a construction come in the order clock enable, reset
\* set, reset cleared, mode selection (CCMR1, CCER, SMCR), auto-reload,
\* counter enable, each at most once; every write to a timer register is made
\* with the timer's clock enabled and its reset de-asserted; and a finished
\* construction has made all of them (the mode writes unless no channel is
\* bound).
C1_ConstructionOrder ==
    \A t \in Timers :
        /\ \A i, j \in DOMAIN log[t] :
              i < j =>
                 /\ Rank(log[t][i].acc) <= Rank(log[t][j].acc)
                 /\ log[t][i].acc # log[t][j].acc
        /\ \A i \in DOMAIN log[t] :
              log[t][i].acc \in TimerWrites => log[t][i].en /\ ~log[t][i].rst
        /\ Done(t) =>
              /\ {"enr_set", "rstr_set", "rstr_clear", "arr", "cr1"} \subseteq Accesses(t)
              /\ binding[t] # {} => ModeWrites \subseteq Accesses(t)

\* A two-channel construction of a timer that was running before has finished.
C1_Witness ==
    \E t \in Timers :
        /\ Done(t)
        /\ binding[t] = {"C1", "C2"}
        /\ Len(log[t]) = 8
        /\ log[t][1].en /\ ~log[t][1].rst

\* C2: after construction the slave-mode field, the capture sources and the
\* polarity bits are those of the binding: both channels, mode 3, CC1S = TI1,
\* CC2S = TI2, CC1P and CC2P set; channel 1 only, mode 1, CC1S = TI1, CC1P
\* set; channel 2 only, mode 2, CC2S = TI2, CC2P set.
C2_ModeByBinding ==
    \A t \in Timers :
        Done(t) =>
            /\ binding[t] = {"C1", "C2"} =>
                  /\ tim[t].smcr.sms = 3
                  /\ tim[t].ccmr1.cc1s = 1 /\ tim[t].ccmr1.cc2s = 1
                  /\ tim[t].ccer.cc1p /\ tim[t].ccer.cc2p
            /\ binding[t] = {"C1"} =>
                  /\ tim[t].smcr.sms = 1
                  /\ tim[t].ccmr1.cc1s = 1
                  /\ tim[t].ccer.cc1p
            /\ binding[t] = {"C2"} =>
                  /\ tim[t].smcr.sms = 2
                  /\ tim[t].ccmr1.cc2s = 1
                  /\ tim[t].ccer.cc2p

\* A channel-2-only construction of a timer that was in use before has
\* finished in encoder mode 2.
C2_Witness ==
    \E t \in Timers :
        /\ Done(t)
        /\ binding[t] = {"C2"}
        /\ tim[t].smcr.sms = 2
        /\ log[t][1].en /\ ~log[t][1].rst

\* C3: after a channel-1-only construction CC2S and CC2P have their reset
\* value, and after a channel-2-only construction CC1S and CC1P have.
C3_OtherChannelAtReset ==
    \A t \in Timers :
        Done(t) =>
            /\ binding[t] = {"C1"} => tim[t].ccmr1.cc2s = 0 /\ ~tim[t].ccer.cc2p
            /\ binding[t] = {"C2"} => tim[t].ccmr1.cc1s = 0 /\ ~tim[t].ccer.cc1p

\* A channel-1-only construction has finished on a timer whose channel 2 was
\* configured before.
C3_Witness ==
    \E t \in Timers :
        /\ Done(t)
        /\ binding[t] = {"C1"}
        /\ tim[t].ccmr1.cc1s = 1
        /\ log[t][1].en /\ ~log[t][1].rst

\* C4: once construction has returned, ARR holds 65535 on TIM3 and 4294967295
\* (both half-words 65535) on TIM2, and CR1.CEN is set, for every binding.
C4_FullScaleAndEnabled ==
    /\ Done("TIM3") => tim["TIM3"].arr = <<65535>> /\ tim["TIM3"].cr1.cen
    /\ Done("TIM2") => tim["TIM2"].arr = <<65535, 65535>> /\ tim["TIM2"].cr1.cen

\* Both timers have been constructed, one with no channel bound, one whose
\* auto-reload value was small before.
C4_Witness ==
    /\ Done("TIM2") /\ Done("TIM3")
    /\ binding["TIM3"] = {}
    /\ binding["TIM2"] = {"C1", "C2"}
    /\ log["TIM2"][1].en /\ ~log["TIM2"][1].rst

InRange(t, w) == Len(w) = Halves(t) /\ \A i \in DOMAIN w : w[i] \in 0..HalfMax

\* C5: count() returns the counter register as it is, a value in
\* 0 .. 2^width - 1, and after construction every change of the counter is
\* one step up or down modulo 2^width: from all ones up to 0, from 0 down to
\* all ones, and never a wrap anywhere else.
C5_CountWrapsAtWidth ==
    [][\A t \in Timers :
          /\ query' = [fn |-> "count", tim |-> t] =>
                /\ lastCount'[t] = tim'[t].cnt
                /\ InRange(t, lastCount'[t])
          /\ Done(t) /\ tim'[t].cnt # tim[t].cnt =>
                \/ tim'[t].cnt = Inc(tim[t].cnt)
                \/ tim'[t].cnt = Dec(tim[t].cnt)
          /\ Done(t) /\ tim'[t].cnt # tim[t].cnt /\ tim[t].cnt = WidthMax(t) =>
                tim'[t].cnt \in {Zero(t), Dec(WidthMax(t))}
          /\ Done(t) /\ tim'[t].cnt # tim[t].cnt /\ tim[t].cnt = Zero(t) =>
                tim'[t].cnt \in {WidthMax(t), Inc(Zero(t))}]_vars

\* count() has just returned all ones on the 32-bit timer: the counter went
\* down from 0.
C5_Witness ==
    /\ query = [fn |-> "count", tim |-> "TIM2"]
    /\ lastCount["TIM2"] = <<65535, 65535>>
    /\ binding["TIM2"] = {"C1", "C2"}

\* C6: read_direction() returns Downcounting when CR1.DIR is set at the read
\* and Upcounting when it is clear, and nothing else.
C6_DirectionIsLiveBit ==
    \A t \in Timers :
        /\ lastDir[t] \in {NoDir, "Downcounting", "Upcounting"}
        /\ query = [fn |-> "read_direction", tim |-> t] =>
              /\ tim[t].cr1.dir => lastDir[t] = "Downcounting"
              /\ ~tim[t].cr1.dir => lastDir[t] = "Upcounting"

\* read_direction() has just returned Downcounting.
C6_Witness ==
    \E t \in Timers :
        /\ query = [fn |-> "read_direction", tim |-> t]
        /\ tim[t].cr1.dir
        /\ lastDir[t] = "Downcounting"

\* C7: count() and read_direction() change no register, and a call returns
\* what the previous call of the same query returned when no encoder-signal
\* transition came in between.
C7_ReadsRepeat ==
    [][\A t \in Timers :
          /\ query'.tim = t => UNCHANGED <<apb1enr, apb1rstr, tim>>
          /\ query' = [fn |-> "count", tim |-> t] /\ lastCount[t] # NoCount =>
                lastCount'[t] = lastCount[t]
          /\ query' = [fn |-> "read_direction", tim |-> t] /\ lastDir[t] # NoDir =>
                lastDir'[t] = lastDir[t]]_vars

\* C8: after a construction with neither channel bound no encoder mode is
\* selected and the count stays at its reset value.
C8_UnboundNeverCounts ==
    \A t \in Timers :
        Done(t) /\ binding[t] = {} =>
            /\ tim[t].smcr.sms = 0
            /\ tim[t].cnt = Zero(t)

\* What construction configures.
Config(t) ==
    <<tim[t].smcr.sms, tim[t].ccmr1.cc1s, tim[t].ccmr1.cc2s,
      tim[t].ccer.cc1p, tim[t].ccer.cc2p, tim[t].arr, tim[t].cr1.cen>>

\* C9: once a construction has returned it stays returned, with the binding
\* it was given, and no later step (a query of either encoder, an encoder
\* edge, the construction of the other timer) changes the sub-mode, the
\* channel mapping, the polarity bits, the auto-reload value or the
\* counter-enable bit.
C9_ConfiguredOnce ==
    [][\A t \in Timers :
          Done(t) =>
             /\ Done(t)'
             /\ binding'[t] = binding[t]
             /\ Config(t)' = Config(t)]_vars

\* The first encoder, read at its wrapped count, while the construction of
\* the second timer has just pulsed its reset.
C9_Witness ==
    /\ Done("TIM3")
    /\ lastCount["TIM3"] = <<65535>>
    /\ Busy("TIM2") /\ pc["TIM2"] = 3
    /\ log["TIM2"][1].en /\ ~log["TIM2"][1].rst

\* C10: a step of a construction changes in APB1ENR and APB1RSTR no bit but
\* its own timer's; when it has returned its enable bit is set and its reset
\* bit clear; and with both timers constructed both are enabled, both out of
\* reset, and both hold the sub-mode of their binding, full-scale ARR and CEN.
C10_OwnRccBitsOnly ==
    [][\A t \in Timers :
          /\ pc'[t] # pc[t] =>
                /\ \A x \in EnBits \ {ClockLine(t)} : apb1enr'[x] = apb1enr[x]
                /\ \A x \in RstBits \ {ResetLine(t)} : apb1rstr'[x] = apb1rstr[x]
          /\ Done(t)' => apb1enr'[ClockLine(t)] /\ ~apb1rstr'[ResetLine(t)]
          /\ (\A u \in Timers : Done(u)') =>
                /\ tim'[t].smcr.sms =
                      (IF binding'[t] = {"C1", "C2"} THEN 3
                       ELSE IF binding'[t] = {"C1"} THEN 1
                       ELSE IF binding'[t] = {"C2"} THEN 2 ELSE 0)
                /\ tim'[t].arr = WidthMax(t)
                /\ tim'[t].cr1.cen]_vars

\* Both timers are constructed while another peripheral is enabled, TIM3
\* from its power-on state and TIM2 from a state held in reset.
C10_Witness ==
    /\ Done("TIM2") /\ Done("TIM3")
    /\ ~log["TIM3"][1].en /\ ~log["TIM3"][1].rst
    /\ log["TIM2"][2].rst
    /\ binding["TIM3"] = {"C1"}
    /\ binding["TIM2"] = {"C2"}
    /\ apb1enr["tim14en"]
====
